---- MODULE Spec2Model ----
(***************************************************************************)
(* Model of the executive-order worker (src/src/types.ts): the snapshot    *)
(* refresh (updateCache), the summary queue (processQueue), the summary    *)
(* generator (summarizeEO) and the key-value store they share.             *)
(*                                                                         *)
(* The awaits of the source are the step boundaries: an action is the code *)
(* that runs between two awaits together with the effect of the call it    *)
(* ends with.  Invocations of different handlers interleave at these       *)
(* boundaries, as they do in the worker runtime.                           *)
(***************************************************************************)
EXTENDS Integers, Sequences, FiniteSets, TLC

\* ---------------------------------------------------------------- constants
MAX_CONCURRENT_REQUESTS == 5
RETRY_DELAY_MS == 60000
MAX_RETRIES == 3
AI_USE_CF == TRUE

\* ---------------------------------------------------------------- bounds
\* Document numbers the upstream listing can return, and the length of the
\* queue the batches of SpecRetry and SpecAttempt start from.
MaxListed == 2
\* Length of the queue the batch of SpecBatch starts from.
MaxQueue == 7
\* Clock horizon of SpecRetry, in multiples of RETRY_DELAY_MS.
RetryPeriods == 3
\* Clock horizon of SpecAttempt and SpecRefresh, in multiples of RETRY_DELAY_MS.
Periods == 1
\* Longest queue of SpecProgress: more than MAX_CONCURRENT_REQUESTS items, so
\* that an item waits behind a full batch.
ProgressQueue == 6
\* Number of firings of the scheduled trigger after the first in SpecProgress.
ProgressFirings == 5
\* Documents the upstream listing returns to the refreshes of SpecRace.
RaceListed == 1

\* QueueItem.lastAttempt is optional: 0 stands for "undefined".  Date.now()
\* is never 0, and the code's test !item.lastAttempt reads both alike.
NoAttempt == 0

\* KV get() of a key that was never put.
Null == "null"

Docs == 1..(IF MaxListed > MaxQueue THEN MaxListed ELSE MaxQueue)
ListedDocs == 1..MaxListed

\* The instants at which the clock is observed up to a horizon of p retry
\* delays: around every multiple of the delay, so that both sides of the
\* delay gate are reached.
Times(p) ==
  {t \in UNION {{k * RETRY_DELAY_MS, k * RETRY_DELAY_MS + 1} : k \in 0..p} : t > 0}

Workers == {"w1", "w2"}
Updaters == {"sched", "api"}

VARIABLES
  now,        \* Date.now()
  kvOrders,   \* KV key 'orders': <<>> when absent, <<snapshot>> when present
  kvQueue,    \* KV key 'summary_queue': <<>> when absent (read as [])
  kvSummary,  \* KV keys 'summary:<documentNumber>'
  pc,         \* position of every invocation
  queueData,  \* processQueue: the parsed queue, mutated in place
  itemsToProcess, \* processQueue: indices into queueData of the selected items
  cursor,     \* processQueue: position of the for loop in itemsToProcess
  summary,    \* processQueue: the const summary of line 446, Null outside
              \* the span from its assignment to the put of line 447
  readQueue,  \* history: queueData as it was read at line 423
  selectedAt, \* history: Date.now() when the filter of line 427 ran
  attemptLog, \* history: per item of a processQueue invocation, when it was
              \* marked and what the text fetch, the backend and the summary
              \* put did; per refresh, the store operations it issued;
              \* under SpecRace, the backend calls and stale puts
  cacheData,  \* updateCache: <<>> or <<the CachedData built at line 464>>
  existingQueue, \* updateCache: the queue read at line 473, while the put
              \* of line 486 is pending
  pendingPut, \* updateCache: the queue handed to put() at line 486
  response    \* GET /api/orders: the last response sent

vars == <<now, kvOrders, kvQueue, kvSummary, pc, queueData, itemsToProcess,
          cursor, summary, readQueue, selectedAt, attemptLog, cacheData,
          existingQueue, pendingPut, response>>

workerVars == <<queueData, itemsToProcess, cursor, summary, readQueue, selectedAt>>
updaterVars == <<cacheData, existingQueue, pendingPut>>

\* ---------------------------------------------------------------- helpers
Range(s) == {s[i] : i \in 1..Len(s)}

Min(a, b) == IF a <= b THEN a ELSE b

\* Array.prototype.slice(0, n).
Slice(s, n) == IF Len(s) <= n THEN s ELSE SubSeq(s, 1, n)

\* Array.prototype.filter on positions: the indices, ascending, at which the
\* predicate held (keep[i] is its value on element i).  The items themselves
\* are shared with the filtered array (filter copies references), so a
\* selection is a sequence of indices into it.
RECURSIVE FilterIdx(_, _)
FilterIdx(keep, from) ==
  IF from > Len(keep) THEN <<>>
  ELSE IF keep[from] THEN <<from>> \o FilterIdx(keep, from + 1)
  ELSE FilterIdx(keep, from + 1)

\* ---------------------------------------------------------------- upstream
\* One result of the Federal Register listing, reduced to the fields the
\* queue reads.
Result(d) == [document_number |-> d, raw_text_url |-> d]

\* What response.json() of the listing can hold in data.results: up to
\* MaxListed results in any order, the same document possibly more than once.
\* The request asks for no order and the code neither sorts nor deduplicates.
Listings ==
  UNION {[1..n -> {Result(d) : d \in ListedDocs}] : n \in 0..MaxListed}

\* What the request of the listing can do: fetch(url) rejects, or resolves
\* with a response (ok or not); response.json() of an ok response resolves
\* with the results (parsed) or rejects.
ListingResponses ==
  {[rejected |-> FALSE, ok |-> TRUE, parsed |-> TRUE, results |-> l] : l \in Listings} \cup
  {[rejected |-> FALSE, ok |-> TRUE, parsed |-> FALSE, results |-> <<>>],
   [rejected |-> FALSE, ok |-> FALSE, parsed |-> FALSE, results |-> <<>>],
   [rejected |-> TRUE, ok |-> FALSE, parsed |-> FALSE, results |-> <<>>]}

\* fetchExecutiveOrders: throws unless the response is ok and its body parses,
\* else maps the results to ExecutiveOrder records.
fetchExecutiveOrders(resp) ==
  IF resp.rejected \/ ~resp.ok \/ ~resp.parsed
    THEN [threw |-> TRUE, orders |-> <<>>]
    ELSE [threw |-> FALSE,
          orders |-> [i \in 1..Len(resp.results) |->
                        [document_number |-> resp.results[i].document_number,
                         raw_text_url |-> resp.results[i].raw_text_url]]]

\* What fetch(item.rawTextUrl) can do: reject, or resolve with a response of
\* any status, whose body resp.text() then reads (readable) or fails to read.
TextResponses ==
  {[rejected |-> TRUE, ok |-> FALSE, readable |-> FALSE]} \cup
  {[rejected |-> FALSE, ok |-> o, readable |-> b] : o \in BOOLEAN, b \in BOOLEAN}

\* What the summarization backend can do: throw, or answer with a body that
\* may be empty.
BackendReplies ==
  {[threw |-> TRUE, body |-> ""],
   [threw |-> FALSE, body |-> ""],
   [threw |-> FALSE, body |-> "summary"]}

\* ---------------------------------------------------------------- generator
summarizeEOCF(reply) ==
  IF reply.threw THEN [threw |-> TRUE, text |-> ""]
  ELSE IF reply.body # "" THEN [threw |-> FALSE, text |-> reply.body]
  ELSE [threw |-> FALSE, text |-> "failed"]

summarizeEOClaude(reply) ==
  IF reply.threw THEN [threw |-> TRUE, text |-> ""]
  ELSE [threw |-> FALSE, text |-> reply.body]

summarizeEO(reply) ==
  IF AI_USE_CF THEN summarizeEOCF(reply) ELSE summarizeEOClaude(reply)

\* ---------------------------------------------------------------- queue
\* Mutant: an item left in processing is picked up again.
IsEligible_ReclaimsProcessing(item, t) ==
  \/ item.status \in {"pending", "processing"}
  \/ /\ item.status = "failed"
     /\ item.attempts < MAX_RETRIES
     /\ (item.lastAttempt = NoAttempt \/ t - item.lastAttempt >= RETRY_DELAY_MS)

\* Mutant: a failed item is never retried.
IsEligible_PendingOnly(item, t) == item.status = "pending"

\* Mutant: the retry ceiling is dropped from the filter.
IsEligible_NoCeiling(item, t) ==
  \/ item.status = "pending"
  \/ /\ item.status = "failed"
     /\ (item.lastAttempt = NoAttempt \/ t - item.lastAttempt >= RETRY_DELAY_MS)

\* Mutant: the delay gate opens one millisecond early.
IsEligible_EarlyGate(item, t) ==
  \/ item.status = "pending"
  \/ /\ item.status = "failed"
     /\ item.attempts < MAX_RETRIES
     /\ (item.lastAttempt = NoAttempt \/ t - item.lastAttempt >= RETRY_DELAY_MS - 1)

\* The filter predicate of processQueue, evaluated at Date.now() = t.
IsEligible(item, t) ==
  \/ item.status = "pending"
  \/ /\ item.status = "failed"
     /\ item.attempts < MAX_RETRIES
     /\ (item.lastAttempt = NoAttempt \/ t - item.lastAttempt >= RETRY_DELAY_MS)

EligibleItems(q, t) ==
  FilterIdx([i \in 1..Len(q) |-> IsEligible(q[i], t)], 1)

\* Mutant: the slice takes the last eligible items instead of the first.
SelectItems_LastFirst(q, t) ==
  LET e == EligibleItems(q, t)
  IN  IF Len(e) <= MAX_CONCURRENT_REQUESTS THEN e
      ELSE SubSeq(e, Len(e) - MAX_CONCURRENT_REQUESTS + 1, Len(e))

\* Mutant: the slice is dropped, every eligible item is taken.
SelectItems_NoCap(q, t) == EligibleItems(q, t)

SelectItems(q, t) == Slice(EligibleItems(q, t), MAX_CONCURRENT_REQUESTS)

\* Mutant: the attempt is not counted.
MarkProcessing_NoCount(item, t) ==
  [item EXCEPT !.status = "processing", !.lastAttempt = t]

\* Mutant: lastAttempt is not stamped.
MarkProcessing_NoTimestamp(item, t) ==
  [item EXCEPT !.status = "processing", !.attempts = @ + 1]

\* Lines 438-440.
MarkProcessing(item, t) ==
  [item EXCEPT !.status = "processing", !.attempts = @ + 1, !.lastAttempt = t]

\* Mutant: the catch clause puts the item back to pending.
CatchBlock_Requeues == [status |-> "pending", escaped |-> FALSE]

\* Mutant: the catch clause rethrows.
CatchBlock_Rethrows == [status |-> "failed", escaped |-> TRUE]

\* The catch clause of lines 451-454: the error is logged, the item is marked
\* failed, nothing is rethrown.
CatchBlock == [status |-> "failed", escaped |-> FALSE]

\* Mutant: the new items are queued in reverse fetch order.
NewQueueItems_NewestLast(orders, existing) ==
  LET existingDocs == {existing[i].documentNumber : i \in 1..Len(existing)}
      fresh == [i \in 1..Len(orders) |-> orders[i].document_number \notin existingDocs]
      idx == FilterIdx(fresh, 1)
  IN  [i \in 1..Len(idx) |->
         [documentNumber |-> orders[idx[Len(idx) + 1 - i]].document_number,
          rawTextUrl |-> orders[idx[Len(idx) + 1 - i]].raw_text_url,
          status |-> "pending",
          attempts |-> 0,
          lastAttempt |-> NoAttempt]]

\* Lines 474-483: the filter tests each order against existing, the queue
\* as it was read, not against the orders before it in the same listing.
NewQueueItems(orders, existing) ==
  LET existingDocs == {existing[i].documentNumber : i \in 1..Len(existing)}
      fresh == [i \in 1..Len(orders) |-> orders[i].document_number \notin existingDocs]
      idx == FilterIdx(fresh, 1)
  IN  [i \in 1..Len(idx) |->
         [documentNumber |-> orders[idx[i]].document_number,
          rawTextUrl |-> orders[idx[i]].raw_text_url,
          status |-> "pending",
          attempts |-> 0,
          lastAttempt |-> NoAttempt]]

\* Line 464-467.
CachedData(orders, t) == [lastUpdated |-> t, orders |-> orders]

\* Mutant: the refresh patches the stored snapshot instead of replacing it.
StoredSnapshot_Patched(prior, data) ==
  IF prior = <<>> THEN data
  ELSE <<[lastUpdated |-> data[1].lastUpdated,
          orders |-> prior[1].orders \o data[1].orders]>>

\* Line 469: what the key 'orders' holds after put('orders', cacheData), given
\* what it held before.
StoredSnapshot(prior, data) == data

\* updateCache(env, summary): the scheduled trigger passes true, the
\* /api/orders handler passes nothing.
Summary(u) == u = "sched"

Finished(p) == pc[p] \in {"idle", "returned", "threw"}

\* ---------------------------------------------------------------- processQueue
\* Every action below leaves attemptLog to the specification that uses it.

\* The queue with the item at position i marked for an attempt at Date.now()
\* = t (lines 438-440); position 0 stands for no item.
Marked(q, i, t) == IF i = 0 THEN q ELSE [q EXCEPT ![i] = MarkProcessing(@, t)]

\* Lines 423-441: the get resolves, the batch is selected and, in the same
\* turn, its first item is marked with the clock of that turn and the put of
\* line 441 is issued.
PQ_Start(w) ==
  /\ Finished(w)
  /\ LET q == kvQueue
         sel == IF Len(q) = 0 THEN <<>> ELSE SelectItems(q, now)
     IN  /\ readQueue' = [readQueue EXCEPT ![w] = q]
         /\ selectedAt' = [selectedAt EXCEPT ![w] = now]
         /\ queueData' = [queueData EXCEPT ![w] =
                            Marked(q, IF Len(sel) = 0 THEN 0 ELSE sel[1], now)]
         /\ itemsToProcess' = [itemsToProcess EXCEPT ![w] = sel]
         /\ cursor' = [cursor EXCEPT ![w] = IF Len(sel) = 0 THEN 0 ELSE 1]
         /\ pc' = [pc EXCEPT ![w] = IF Len(sel) = 0 THEN "returned" ELSE "mark"]
  /\ UNCHANGED <<now, kvOrders, kvQueue, kvSummary, summary, updaterVars, response>>

\* Mutant: the put of line 441 is missing, the mark stays in memory.
PQ_Mark_InMemory(w) ==
  /\ pc[w] = "mark"
  /\ pc' = [pc EXCEPT ![w] = "fetch"]
  /\ UNCHANGED <<now, kvOrders, kvQueue, kvSummary, workerVars, updaterVars, response>>

\* Line 441: the put of the whole queue, with the item as it was marked when
\* the put was issued, lands; the text fetch is issued.
PQ_Mark(w) ==
  /\ pc[w] = "mark"
  /\ kvQueue' = queueData[w]
  /\ pc' = [pc EXCEPT ![w] = "fetch"]
  /\ UNCHANGED <<now, kvOrders, kvSummary, workerVars, updaterVars, response>>

\* The catch clause applied to the current item: the item takes the status
\* of the clause and the loop goes on to line 457, unless the error leaves.
Catch(w) ==
  /\ queueData' = [queueData EXCEPT ![w][itemsToProcess[w][cursor[w]]].status =
                     IF CatchBlock.escaped THEN @ ELSE CatchBlock.status]
  /\ pc' = [pc EXCEPT ![w] = IF CatchBlock.escaped THEN "threw" ELSE "persist"]

\* Line 444: fetch(item.rawTextUrl) resolves with a response, whatever its
\* status, or rejects into the catch clause.
PQ_Fetch(w, resp) ==
  /\ pc[w] = "fetch"
  /\ IF resp.rejected
       THEN Catch(w)
       ELSE /\ pc' = [pc EXCEPT ![w] = "text"]
            /\ queueData' = queueData
  /\ UNCHANGED <<now, kvOrders, kvQueue, kvSummary, itemsToProcess, cursor, summary,
                 readQueue, selectedAt, updaterVars, response>>

\* Line 445: resp.text() resolves, summarizeEO is called with the text and
\* runs up to its request to the backend (line 356); or resp.text() rejects
\* into the catch clause.
PQ_Text(w, resp) ==
  /\ pc[w] = "text"
  /\ ~resp.rejected
  /\ IF resp.readable
       THEN /\ pc' = [pc EXCEPT ![w] = "summarize"]
            /\ queueData' = queueData
       ELSE Catch(w)
  /\ UNCHANGED <<now, kvOrders, kvQueue, kvSummary, itemsToProcess, cursor, summary,
                 readQueue, selectedAt, updaterVars, response>>

\* Line 446: the backend answers and summarizeEO returns the summary, or
\* throws into the catch clause.
PQ_Summarize(w, reply) ==
  /\ pc[w] = "summarize"
  /\ LET s == summarizeEO(reply)
     IN  IF s.threw
           THEN Catch(w) /\ summary' = summary
           ELSE /\ summary' = [summary EXCEPT ![w] = s.text]
                /\ pc' = [pc EXCEPT ![w] = "putSummary"]
                /\ queueData' = queueData
  /\ UNCHANGED <<now, kvOrders, kvQueue, kvSummary, itemsToProcess, cursor,
                 readQueue, selectedAt, updaterVars, response>>

\* Mutant: the summary is generated but never put.
PQ_PutSummary_NotStored(w) ==
  /\ pc[w] = "putSummary"
  /\ queueData' = [queueData EXCEPT ![w][itemsToProcess[w][cursor[w]]].status =
                     "completed"]
  /\ summary' = [summary EXCEPT ![w] = Null]
  /\ pc' = [pc EXCEPT ![w] = "persist"]
  /\ UNCHANGED <<now, kvOrders, kvQueue, kvSummary, itemsToProcess, cursor,
                 readQueue, selectedAt, updaterVars, response>>

\* Lines 447-450: the summary is put under 'summary:<documentNumber>' and the
\* item is completed in memory.
PQ_PutSummary(w) ==
  /\ pc[w] = "putSummary"
  /\ LET i == itemsToProcess[w][cursor[w]]
     IN  /\ kvSummary' = [kvSummary EXCEPT ![queueData[w][i].documentNumber] =
                            summary[w]]
         /\ queueData' = [queueData EXCEPT ![w][i].status = "completed"]
  /\ summary' = [summary EXCEPT ![w] = Null]
  /\ pc' = [pc EXCEPT ![w] = "persist"]
  /\ UNCHANGED <<now, kvOrders, kvQueue, itemsToProcess, cursor, readQueue,
                 selectedAt, updaterVars, response>>

\* Lines 443-450, one await at a time, with every outcome of the text fetch
\* and of the backend.
PQ_Try(w) ==
  \/ \E resp \in TextResponses : PQ_Fetch(w, resp)
  \/ \E resp \in TextResponses : PQ_Text(w, resp)
  \/ \E reply \in BackendReplies : PQ_Summarize(w, reply)
  \/ PQ_PutSummary(w)

\* Line 457: the put lands.  In the same turn the loop ends, or the next
\* item is marked with the clock of that turn (lines 438-440) and the put of
\* line 441 is issued.
PQ_Persist(w) ==
  /\ pc[w] = "persist"
  /\ kvQueue' = queueData[w]
  /\ IF cursor[w] < Len(itemsToProcess[w])
       THEN /\ cursor' = [cursor EXCEPT ![w] = @ + 1]
            /\ queueData' = [queueData EXCEPT ![w] =
                               Marked(@, itemsToProcess[w][cursor[w] + 1], now)]
            /\ pc' = [pc EXCEPT ![w] = "mark"]
       ELSE /\ cursor' = cursor
            /\ queueData' = queueData
            /\ pc' = [pc EXCEPT ![w] = "returned"]
  /\ UNCHANGED <<now, kvOrders, kvSummary, itemsToProcess, summary,
                 readQueue, selectedAt, updaterVars, response>>

\* ---------------------------------------------------------------- history
NoLog == UNCHANGED attemptLog

\* The record of an attempt, opened when its item is marked at Date.now() = t.
Attempt(t) ==
  [at |-> t, fetched |-> "pending", body |-> "not-read",
   backend |-> "not-called", stored |-> "not-tried", queuePut |-> "accepted"]

\* An invocation starts: its log holds the attempt of the first item it
\* marked, if it selected any.
LogStart(w) ==
  attemptLog' = [attemptLog EXCEPT ![w] =
                   IF pc'[w] = "mark" THEN <<Attempt(now)>> ELSE <<>>]

\* The loop goes on: the attempt of the item it marked is opened.
LogMark(w) ==
  attemptLog' = [attemptLog EXCEPT ![w] =
                   IF pc'[w] = "mark" THEN Append(@, Attempt(now)) ELSE @]

FetchKind(resp) ==
  IF resp.rejected THEN "rejected" ELSE IF resp.ok THEN "ok" ELSE "http-error"

BackendKind(reply) ==
  IF reply.threw THEN "threw"
  ELSE IF reply.body = "" THEN "empty" ELSE "text"

\* The record of the current attempt is filled in as its awaits resolve.
LogFetch(w, resp) ==
  attemptLog' = [attemptLog EXCEPT ![w][cursor[w]].fetched = FetchKind(resp)]

LogText(w, resp) ==
  attemptLog' = [attemptLog EXCEPT ![w][cursor[w]].body =
                   IF resp.readable THEN "read" ELSE "rejected"]

LogBackend(w, reply) ==
  attemptLog' = [attemptLog EXCEPT ![w][cursor[w]].backend = BackendKind(reply)]

LogStored(w, put) ==
  attemptLog' = [attemptLog EXCEPT ![w][cursor[w]].stored = put]

\* The put of line 441 or of line 457 for the current item rejected.
LogPersistFails(w) ==
  attemptLog' = [attemptLog EXCEPT ![w][cursor[w]].queuePut = "rejected"]

\* History of the puts of the whole queue: that an invocation put the queue
\* over a change persisted since it last read or wrote it.
StalePut == [event |-> "stale put", doc |-> 0, item |-> 0, late |-> FALSE, done |-> FALSE]

\* The queue as invocation p last read or wrote it, while its put of the
\* whole queue is pending: for updateCache the queue read at line 473; for
\* processQueue its copy without the change the pending put carries (the mark
\* of the current item at line 441, its final status at line 457).
Seen(p) ==
  IF p \in Updaters THEN existingQueue[p]
  ELSE LET i == itemsToProcess[p][cursor[p]]
       IN  IF pc[p] = "mark"
             THEN [queueData[p] EXCEPT ![i] = readQueue[p][i]]
             ELSE [queueData[p] EXCEPT ![i].status = "processing"]

\* The put of line 441, 457 or 486 lands while the store holds something
\* other than what the invocation saw.
LogPut(p) ==
  attemptLog' = [attemptLog EXCEPT ![p] =
                   IF kvQueue # Seen(p) /\ StalePut \notin Range(@)
                     THEN Append(@, StalePut) ELSE @]

\* History of a refresh: the store operations it has issued, in order, each
\* with whether the store accepted it.
KvOp(op, ok) == [op |-> op, ok |-> ok]
LogRefreshStart(u) == attemptLog' = [attemptLog EXCEPT ![u] = <<>>]
LogKv(u, op, ok) == attemptLog' = [attemptLog EXCEPT ![u] = Append(@, KvOp(op, ok))]

\* processQueue with its attempts recorded.
PQ_StartLogged(w) == PQ_Start(w) /\ LogStart(w)
PQ_MarkLogged(w) == PQ_Mark(w) /\ NoLog
PQ_TryLogged(w) ==
  \/ \E resp \in TextResponses : PQ_Fetch(w, resp) /\ LogFetch(w, resp)
  \/ \E resp \in TextResponses : PQ_Text(w, resp) /\ LogText(w, resp)
  \/ \E reply \in BackendReplies : PQ_Summarize(w, reply) /\ LogBackend(w, reply)
  \/ PQ_PutSummary(w) /\ LogStored(w, "ok")
PQ_PersistLogged(w) == PQ_Persist(w) /\ LogMark(w)

\* ---------------------------------------------------------------- updateCache
\* The scheduled trigger starts a refresh whenever the last one has finished;
\* the /api/orders handler starts one from line 134.
CanRefresh(u) == IF u = "api" THEN pc[u] = "refresh" ELSE Finished(u)

\* Line 463 up to the first await of fetchExecutiveOrders (line 306): the
\* fetch rejects, or resolves with a response that is not ok, and the error
\* leaves updateCache through the catch of lines 489-492; or it resolves ok
\* and response.json() is awaited.
UC_FetchGets(u, resp) ==
  /\ CanRefresh(u)
  /\ pc' = [pc EXCEPT ![u] = IF resp.rejected \/ ~resp.ok THEN "threw" ELSE "json"]
  /\ cacheData' = [cacheData EXCEPT ![u] = <<>>]
  /\ UNCHANGED <<now, kvOrders, kvQueue, kvSummary, workerVars, existingQueue, pendingPut, response>>

\* Line 317 to line 467: response.json() resolves, the results are mapped and
\* cacheData is built with Date.now(); or response.json() rejects and the
\* error leaves updateCache.
UC_JsonGets(u, resp) ==
  /\ pc[u] = "json"
  /\ ~resp.rejected /\ resp.ok
  /\ LET r == fetchExecutiveOrders(resp)
     IN  IF r.threw
           THEN /\ pc' = [pc EXCEPT ![u] = "threw"]
                /\ cacheData' = [cacheData EXCEPT ![u] = <<>>]
           ELSE /\ pc' = [pc EXCEPT ![u] = "putOrders"]
                /\ cacheData' = [cacheData EXCEPT ![u] = <<CachedData(r.orders, now)>>]
  /\ UNCHANGED <<now, kvOrders, kvQueue, kvSummary, workerVars, existingQueue, pendingPut, response>>

UC_Fetch(u) == \E resp \in ListingResponses : UC_FetchGets(u, resp)
UC_Json(u) == \E resp \in ListingResponses : UC_JsonGets(u, resp)

\* The listing fails, or answers with documents in any order, none of them
\* twice.
DistinctResponses ==
  {resp \in ListingResponses :
     \A i, j \in 1..Len(resp.results) :
       i # j => resp.results[i].document_number # resp.results[j].document_number}

UC_FetchDistinct(u) == \E resp \in DistinctResponses : UC_FetchGets(u, resp)
UC_JsonDistinct(u) == \E resp \in DistinctResponses : UC_JsonGets(u, resp)

\* Line 469.
UC_PutOrders(u) ==
  /\ pc[u] = "putOrders"
  /\ kvOrders' = StoredSnapshot(kvOrders, cacheData[u])
  /\ pc' = [pc EXCEPT ![u] = IF Summary(u) THEN "readQueue" ELSE "returned"]
  /\ cacheData' = [cacheData EXCEPT ![u] = IF Summary(u) THEN @ ELSE <<>>]
  /\ UNCHANGED <<now, kvQueue, kvSummary, workerVars, existingQueue, pendingPut, response>>

\* Mutant: the new items are put in front of the existing queue.
UC_ReadQueue_Prepends(u) ==
  /\ pc[u] = "readQueue"
  /\ LET newQueueItems == NewQueueItems(cacheData[u][1].orders, kvQueue)
     IN  IF Len(newQueueItems) > 0
           THEN /\ existingQueue' = [existingQueue EXCEPT ![u] = kvQueue]
                /\ pendingPut' = [pendingPut EXCEPT ![u] = newQueueItems \o kvQueue]
                /\ pc' = [pc EXCEPT ![u] = "putQueue"]
           ELSE /\ UNCHANGED <<existingQueue, pendingPut>>
                /\ pc' = [pc EXCEPT ![u] = "returned"]
  /\ cacheData' = [cacheData EXCEPT ![u] = <<>>]
  /\ UNCHANGED <<now, kvOrders, kvQueue, kvSummary, workerVars, response>>

\* Mutant: only the new items are handed to the put.
UC_ReadQueue_OnlyNew(u) ==
  /\ pc[u] = "readQueue"
  /\ LET newQueueItems == NewQueueItems(cacheData[u][1].orders, kvQueue)
     IN  IF Len(newQueueItems) > 0
           THEN /\ existingQueue' = [existingQueue EXCEPT ![u] = kvQueue]
                /\ pendingPut' = [pendingPut EXCEPT ![u] = newQueueItems]
                /\ pc' = [pc EXCEPT ![u] = "putQueue"]
           ELSE /\ UNCHANGED <<existingQueue, pendingPut>>
                /\ pc' = [pc EXCEPT ![u] = "returned"]
  /\ cacheData' = [cacheData EXCEPT ![u] = <<>>]
  /\ UNCHANGED <<now, kvOrders, kvQueue, kvSummary, workerVars, response>>

\* Lines 473-485.
UC_ReadQueue(u) ==
  /\ pc[u] = "readQueue"
  /\ LET newQueueItems == NewQueueItems(cacheData[u][1].orders, kvQueue)
     IN  IF Len(newQueueItems) > 0
           THEN /\ existingQueue' = [existingQueue EXCEPT ![u] = kvQueue]
                /\ pendingPut' = [pendingPut EXCEPT ![u] = kvQueue \o newQueueItems]
                /\ pc' = [pc EXCEPT ![u] = "putQueue"]
           ELSE /\ UNCHANGED <<existingQueue, pendingPut>>
                /\ pc' = [pc EXCEPT ![u] = "returned"]
  /\ cacheData' = [cacheData EXCEPT ![u] = <<>>]
  /\ UNCHANGED <<now, kvOrders, kvQueue, kvSummary, workerVars, response>>

\* Line 486.
UC_PutQueue(u) ==
  /\ pc[u] = "putQueue"
  /\ kvQueue' = pendingPut[u]
  /\ existingQueue' = [existingQueue EXCEPT ![u] = <<>>]
  /\ pendingPut' = [pendingPut EXCEPT ![u] = <<>>]
  /\ pc' = [pc EXCEPT ![u] = "returned"]
  /\ UNCHANGED <<now, kvOrders, kvSummary, workerVars, cacheData, response>>

\* ---------------------------------------------------------------- GET /api/orders
NoResponse == [status |-> 0, orders |-> <<>>]

\* Lines 131-139: with a snapshot, answer its orders; without one, call
\* updateCache(c.env).
API_ListOrders(a) ==
  /\ pc[a] = "idle"
  /\ IF kvOrders = <<>>
       THEN /\ pc' = [pc EXCEPT ![a] = "refresh"]
            /\ response' = NoResponse
       ELSE /\ pc' = pc
            /\ response' = [status |-> 200, orders |-> kvOrders[1].orders]
  /\ UNCHANGED <<now, kvOrders, kvQueue, kvSummary, workerVars, updaterVars>>

\* Lines 134-135: updateCache returned, answer 202; it threw, and the
\* framework answers 500.
API_Respond(a) ==
  /\ pc[a] \in {"returned", "threw"}
  /\ response' = [status |-> IF pc[a] = "returned" THEN 202 ELSE 500, orders |-> <<>>]
  /\ pc' = [pc EXCEPT ![a] = "idle"]
  /\ UNCHANGED <<now, kvOrders, kvQueue, kvSummary, workerVars, updaterVars>>

\* ---------------------------------------------------------------- clock
Tick(p) ==
  /\ \E t \in Times(p) : t > now /\ now' = t
  /\ UNCHANGED <<kvOrders, kvQueue, kvSummary, pc, workerVars, updaterVars, response>>

\* A retry delay elapses, up to p times.
TickDelay(p) ==
  /\ now + RETRY_DELAY_MS <= p * RETRY_DELAY_MS + 1
  /\ now' = now + RETRY_DELAY_MS
  /\ UNCHANGED <<kvOrders, kvQueue, kvSummary, pc, workerVars, updaterVars, response>>

\* ---------------------------------------------------------------- store failures
\* A get() or put() of the KV namespace may reject.  Each action below is the
\* step of the same name with its store operation rejecting.

\* Line 423 rejects: processQueue throws before it has read anything.
PQ_StartFails(w) ==
  /\ Finished(w)
  /\ readQueue' = [readQueue EXCEPT ![w] = kvQueue]
  /\ selectedAt' = [selectedAt EXCEPT ![w] = now]
  /\ queueData' = [queueData EXCEPT ![w] = <<>>]
  /\ itemsToProcess' = [itemsToProcess EXCEPT ![w] = <<>>]
  /\ cursor' = [cursor EXCEPT ![w] = 0]
  /\ pc' = [pc EXCEPT ![w] = "threw"]
  /\ UNCHANGED <<now, kvOrders, kvQueue, kvSummary, summary, updaterVars, response>>

\* The put of line 441 rejects: the item stays marked in memory only, and
\* the rejection leaves processQueue (line 441 is outside the try).
PQ_MarkFails(w) ==
  /\ pc[w] = "mark"
  /\ pc' = [pc EXCEPT ![w] = "threw"]
  /\ UNCHANGED <<now, kvOrders, kvQueue, kvSummary, workerVars, updaterVars,
                 response>>

\* The put of line 447 rejects: the rejection is thrown inside the try, so
\* the catch clause takes it.
PQ_PutSummaryFails(w) ==
  /\ pc[w] = "putSummary"
  /\ Catch(w)
  /\ summary' = [summary EXCEPT ![w] = Null]
  /\ UNCHANGED <<now, kvOrders, kvQueue, kvSummary, itemsToProcess, cursor,
                 readQueue, selectedAt, updaterVars, response>>

\* Line 457 rejects: outside the try, the rejection leaves processQueue.
PQ_PersistFails(w) ==
  /\ pc[w] = "persist"
  /\ pc' = [pc EXCEPT ![w] = "threw"]
  /\ UNCHANGED <<now, kvOrders, kvQueue, kvSummary, workerVars, updaterVars,
                 response>>

\* Line 469 rejects: caught at line 489 and rethrown at line 491.
UC_PutOrdersFails(u) ==
  /\ pc[u] = "putOrders"
  /\ pc' = [pc EXCEPT ![u] = "threw"]
  /\ cacheData' = [cacheData EXCEPT ![u] = <<>>]
  /\ UNCHANGED <<now, kvOrders, kvQueue, kvSummary, workerVars, existingQueue, pendingPut, response>>

\* Line 473 rejects.
UC_ReadQueueFails(u) ==
  /\ pc[u] = "readQueue"
  /\ pc' = [pc EXCEPT ![u] = "threw"]
  /\ cacheData' = [cacheData EXCEPT ![u] = <<>>]
  /\ UNCHANGED <<now, kvOrders, kvQueue, kvSummary, workerVars, existingQueue, pendingPut, response>>

\* Line 486 rejects.
UC_PutQueueFails(u) ==
  /\ pc[u] = "putQueue"
  /\ pc' = [pc EXCEPT ![u] = "threw"]
  /\ existingQueue' = [existingQueue EXCEPT ![u] = <<>>]
  /\ pendingPut' = [pendingPut EXCEPT ![u] = <<>>]
  /\ UNCHANGED <<now, kvOrders, kvQueue, kvSummary, workerVars, cacheData, response>>

\* ---------------------------------------------------------------- system
\* The listing answers with the documents 1..n.
ListingOf(n) ==
  [rejected |-> FALSE, ok |-> TRUE, parsed |-> TRUE,
   results |-> [i \in 1..n |-> Result(i)]]

\* The orders fetchExecutiveOrders returns for a listing of the documents
\* 1..n, in that order.
Listed(n) == fetchExecutiveOrders(ListingOf(n)).orders

\* The worker deployed at time t on a store holding orders and queue.
StartAt(t, orders, queue) ==
  /\ now = t
  /\ kvOrders = orders
  /\ kvQueue = queue
  /\ kvSummary = [d \in Docs |-> Null]
  /\ pc = [p \in Workers \cup Updaters |-> "idle"]
  /\ queueData = [w \in Workers |-> <<>>]
  /\ itemsToProcess = [w \in Workers |-> <<>>]
  /\ cursor = [w \in Workers |-> 0]
  /\ summary = [w \in Workers |-> Null]
  /\ readQueue = [w \in Workers |-> <<>>]
  /\ selectedAt = [w \in Workers |-> 1]
  /\ attemptLog = [p \in Workers \cup Updaters |-> <<>>]
  /\ cacheData = [u \in Updaters |-> <<>>]
  /\ existingQueue = [u \in Updaters |-> <<>>]
  /\ pendingPut = [u \in Updaters |-> <<>>]
  /\ response = NoResponse

Start(orders, queue) == StartAt(1, orders, queue)

\* The store after a completed updateCache(env, true) that listed documents
\* 1..n at time 1: the snapshot, and every order queued as pending.
Queued(n) ==
  Start(<<CachedData(Listed(n), 1)>>, NewQueueItems(Listed(n), <<>>))

\* The store a retry delay after the firing at time 1 in which each of the
\* documents 1..n, all that were listed then, failed its attempt before the
\* last.
Retried(n) ==
  StartAt(RETRY_DELAY_MS + 1, <<CachedData(Listed(n), 1)>>,
          [i \in 1..n |->
             [NewQueueItems(Listed(n), <<>>)[i] EXCEPT
                !.status = "failed", !.attempts = MAX_RETRIES - 1, !.lastAttempt = 1]])

\* The deployed worker with an empty store.
Init == Start(<<>>, <<>>)

\* The scheduled trigger: updateCache(env, true) and processQueue(env) run
\* concurrently and interleave at their awaits; triggers follow one another.
\* The clock stands still here, so every item gets one attempt; the retry
\* gate is exercised under SpecRetry.
Next ==
  \/ PQ_Start("w1") /\ NoLog
  \/ PQ_Mark("w1") /\ NoLog
  \/ PQ_Try("w1") /\ NoLog
  \/ PQ_Persist("w1") /\ NoLog
  \/ UC_Fetch("sched") /\ NoLog
  \/ UC_Json("sched") /\ NoLog
  \/ UC_PutOrders("sched") /\ NoLog
  \/ UC_ReadQueue("sched") /\ NoLog
  \/ UC_PutQueue("sched") /\ NoLog

Spec == Init /\ [][Next]_vars

\* Refreshes alone while retry delays elapse: the scheduled one and the one
\* GET /api/orders starts, racing on the snapshot.  A listing holds no
\* document twice.
NextRefresh ==
  \/ UC_FetchDistinct("sched") /\ NoLog
  \/ UC_JsonDistinct("sched") /\ NoLog
  \/ UC_PutOrders("sched") /\ NoLog
  \/ UC_ReadQueue("sched") /\ NoLog
  \/ UC_PutQueue("sched") /\ NoLog
  \/ API_ListOrders("api") /\ NoLog
  \/ UC_FetchDistinct("api") /\ NoLog
  \/ UC_JsonDistinct("api") /\ NoLog
  \/ UC_PutOrders("api") /\ NoLog
  \/ API_Respond("api") /\ NoLog
  \/ TickDelay(Periods) /\ NoLog

SpecRefresh == Init /\ [][NextRefresh]_vars

\* processQueue alone, one invocation after another while the clock advances,
\* on a queue of up to MaxListed pending items.
InitRetry == \E n \in 0..MaxListed : Queued(n)

NextRetry ==
  \/ PQ_Start("w1") /\ NoLog
  \/ PQ_Mark("w1") /\ NoLog
  \/ PQ_Try("w1") /\ NoLog
  \/ PQ_Persist("w1") /\ NoLog
  \/ Tick(RetryPeriods) /\ NoLog

SpecRetry == InitRetry /\ [][NextRetry]_vars

\* The same with every attempt recorded, over a shorter horizon.
NextAttempt ==
  \/ PQ_StartLogged("w1")
  \/ PQ_MarkLogged("w1")
  \/ PQ_TryLogged("w1")
  \/ PQ_PersistLogged("w1")
  \/ Tick(Periods) /\ NoLog

SpecAttempt == InitRetry /\ [][NextAttempt]_vars

\* One processQueue invocation on a queue of up to MaxQueue pending items:
\* more than MAX_CONCURRENT_REQUESTS of them are eligible.
InitBatch == \E n \in 0..MaxQueue : Queued(n)

NextBatch ==
  \/ PQ_Start("w1") /\ pc["w1"] = "idle" /\ NoLog
  \/ PQ_Mark("w1") /\ NoLog
  \/ PQ_Try("w1") /\ NoLog
  \/ PQ_Persist("w1") /\ NoLog

SpecBatch == InitBatch /\ [][NextBatch]_vars

\* Lines 443-450 where, apart from the store, an attempt fails by a rejected
\* text fetch or succeeds: the fetch rejects or answers 200 with a body that
\* reads, and the backend returns text.
PlainResponses ==
  {resp \in TextResponses : resp.rejected \/ (resp.ok /\ resp.readable)}
TextReplies == {reply \in BackendReplies : ~reply.threw /\ reply.body # ""}

PQ_TryPlain(w) ==
  \/ \E resp \in PlainResponses : PQ_Fetch(w, resp)
  \/ \E resp \in PlainResponses : PQ_Text(w, resp)
  \/ \E reply \in TextReplies : PQ_Summarize(w, reply)
  \/ PQ_PutSummary(w)

\* The scheduled refresh and processQueue one after the other on a store whose
\* every operation may reject, with the store operations of each recorded.
\* The listing fails or lists every document once; apart from the store, an
\* attempt fails by a rejected fetch or succeeds.
NextStorage ==
  \/ /\ Finished("sched")
     /\ \/ PQ_StartLogged("w1")
        \/ PQ_StartFails("w1") /\ LogStart("w1")
  \/ PQ_MarkLogged("w1")
  \/ PQ_MarkFails("w1") /\ LogPersistFails("w1")
  \/ \E resp \in PlainResponses : PQ_Fetch("w1", resp) /\ LogFetch("w1", resp)
  \/ \E resp \in PlainResponses : PQ_Text("w1", resp) /\ LogText("w1", resp)
  \/ \E reply \in TextReplies : PQ_Summarize("w1", reply) /\ LogBackend("w1", reply)
  \/ PQ_PutSummary("w1") /\ LogStored("w1", "ok")
  \/ PQ_PutSummaryFails("w1") /\ LogStored("w1", "rejected")
  \/ PQ_PersistLogged("w1")
  \/ PQ_PersistFails("w1") /\ LogPersistFails("w1")
  \/ /\ Finished("w1")
     /\ UC_FetchDistinct("sched")
     /\ LogRefreshStart("sched")
  \/ UC_JsonDistinct("sched") /\ NoLog
  \/ UC_PutOrders("sched") /\ LogKv("sched", "put orders", TRUE)
  \/ UC_PutOrdersFails("sched") /\ LogKv("sched", "put orders", FALSE)
  \/ UC_ReadQueue("sched") /\ LogKv("sched", "get summary_queue", TRUE)
  \/ UC_ReadQueueFails("sched") /\ LogKv("sched", "get summary_queue", FALSE)
  \/ UC_PutQueue("sched") /\ LogKv("sched", "put summary_queue", TRUE)
  \/ UC_PutQueueFails("sched") /\ LogKv("sched", "put summary_queue", FALSE)

SpecStorage == Init /\ [][NextStorage]_vars

\* The scheduled refresh and processQueue interleaved at their awaits, as
\* line 499 starts them, again and again from the empty store, with a retry
\* delay elapsing whenever both have ended; stale puts are recorded.  The
\* store is reliable, a listing holds no document twice, an attempt fails by
\* a rejected fetch or succeeds.
NextLifecycle ==
  \/ PQ_Start("w1") /\ NoLog
  \/ PQ_Mark("w1") /\ LogPut("w1")
  \/ PQ_TryPlain("w1") /\ NoLog
  \/ PQ_Persist("w1") /\ LogPut("w1")
  \/ UC_FetchDistinct("sched") /\ NoLog
  \/ UC_JsonDistinct("sched") /\ NoLog
  \/ UC_PutOrders("sched") /\ NoLog
  \/ UC_ReadQueue("sched") /\ NoLog
  \/ UC_PutQueue("sched") /\ LogPut("sched")
  \/ Finished("w1") /\ Finished("sched") /\ TickDelay(Periods) /\ NoLog

SpecLifecycle == Init /\ [][NextLifecycle]_vars

\* The scheduled trigger firing again and again while the upstream lists
\* ProgressQueue documents.  The store starts as an earlier refresh left it,
\* with all of them queued as pending; or as earlier firings left it when the
\* last document was not listed yet, with the others failed and one attempt
\* short of MAX_RETRIES, so that the refresh of the first firing queues the
\* last document while processQueue retries the others.  Firings do not
\* overlap: the next one comes RETRY_DELAY_MS after both invocations of the
\* last have ended.  Nothing is interrupted, the store and the listing are
\* reliable.  The text fetch rejects or succeeds and the backend, when
\* called, returns text.  Stale puts are recorded.
InitProgress == Queued(ProgressQueue) \/ Retried(ProgressQueue - 1)

\* scheduled() (lines 498-500) runs, the interval having elapsed since the
\* invocations of the last firing ended: updateCache(env, true) and
\* processQueue(env) are both started and stand at their first awaits (the
\* fetch of line 306, the get of line 423), to interleave from there.  In the
\* initial state the trigger has just fired.
Fire ==
  /\ pc["w1"] \in {"returned", "threw"}
  /\ pc["sched"] \in {"returned", "threw"}
  /\ now + RETRY_DELAY_MS <= ProgressFirings * RETRY_DELAY_MS + 1
  /\ now' = now + RETRY_DELAY_MS
  /\ pc' = [pc EXCEPT !["w1"] = "idle", !["sched"] = "idle"]
  /\ UNCHANGED <<kvOrders, kvQueue, kvSummary, workerVars, updaterVars, response>>

NextProgress ==
  \/ Fire /\ NoLog
  \/ pc["w1"] = "idle" /\ PQ_Start("w1") /\ NoLog
  \/ PQ_Mark("w1") /\ LogPut("w1")
  \/ PQ_TryPlain("w1") /\ NoLog
  \/ PQ_Persist("w1") /\ LogPut("w1")
  \/ pc["sched"] = "idle" /\ UC_FetchGets("sched", ListingOf(ProgressQueue)) /\ NoLog
  \/ UC_JsonGets("sched", ListingOf(ProgressQueue)) /\ NoLog
  \/ UC_PutOrders("sched") /\ NoLog
  \/ UC_ReadQueue("sched") /\ NoLog
  \/ UC_PutQueue("sched") /\ LogPut("sched")

\* The runtime takes every invocation it started to its end and the scheduler
\* keeps firing: no enabled step is postponed forever.
SpecProgress == InitProgress /\ [][NextProgress]_vars /\ WF_vars(NextProgress)

\* One processQueue invocation at time RETRY_DELAY_MS + 1 on a queue of up to
\* MaxQueue items left by earlier invocations and refreshes: the first a items
\* failed at time 1 (their delay has elapsed), the next failed at time
\* RETRY_DELAY_MS (it has not), the rest are still pending.
FailedAt(item, t) ==
  [item EXCEPT !.status = "failed", !.attempts = 1, !.lastAttempt = t]

QueueAfter(n, a, b) ==
  LET q == NewQueueItems(Listed(n), <<>>)
  IN  [i \in 1..n |->
         IF i <= a THEN FailedAt(q[i], 1)
         ELSE IF i <= b THEN FailedAt(q[i], RETRY_DELAY_MS)
         ELSE q[i]]

InitOrder ==
  \E n \in 0..MaxQueue : \E b \in 0..n : \E a \in 0..b :
    /\ now = RETRY_DELAY_MS + 1
    /\ kvOrders = <<CachedData(Listed(n), 1)>>
    /\ kvQueue = QueueAfter(n, a, b)
    /\ kvSummary = [d \in Docs |-> Null]
    /\ pc = [p \in Workers \cup Updaters |-> "idle"]
    /\ queueData = [w \in Workers |-> <<>>]
    /\ itemsToProcess = [w \in Workers |-> <<>>]
    /\ cursor = [w \in Workers |-> 0]
    /\ summary = [w \in Workers |-> Null]
    /\ readQueue = [w \in Workers |-> <<>>]
    /\ selectedAt = [w \in Workers |-> 1]
    /\ attemptLog = [p \in Workers \cup Updaters |-> <<>>]
    /\ cacheData = [u \in Updaters |-> <<>>]
    /\ existingQueue = [u \in Updaters |-> <<>>]
    /\ pendingPut = [u \in Updaters |-> <<>>]
    /\ response = NoResponse

NextOrder ==
  \/ PQ_Start("w1") /\ pc["w1"] = "idle" /\ NoLog
  \/ PQ_Mark("w1") /\ NoLog
  \/ PQ_Try("w1") /\ NoLog
  \/ PQ_Persist("w1") /\ NoLog

SpecOrder == InitOrder /\ [][NextOrder]_vars

\* The runtime ends an invocation at one of its awaits (the isolate is
\* evicted, or the invocation exceeds its limits): nothing after that await
\* runs.
PQ_Interrupt(w) ==
  /\ pc[w] \in {"mark", "fetch", "text", "summarize", "putSummary", "persist"}
  /\ pc' = [pc EXCEPT ![w] = "interrupted"]
  /\ UNCHANGED <<now, kvOrders, kvQueue, kvSummary, workerVars, updaterVars, response>>

\* History of an interruption: the await at which it fell.
LogInterrupt(w) ==
  attemptLog' = [attemptLog EXCEPT ![w] = <<[event |-> "interrupted", at |-> pc[w]]>>]

Over(w) == pc[w] \in {"returned", "interrupted"}

\* One processQueue invocation that may be interrupted at any await; once it
\* is over, later invocations and scheduled refreshes run, interleaved at
\* their awaits.  A listing holds no document twice; an attempt fails by a
\* rejected fetch or succeeds.
NextCrash ==
  \/ PQ_Start("w1") /\ pc["w1"] = "idle" /\ NoLog
  \/ PQ_Mark("w1") /\ NoLog
  \/ PQ_TryPlain("w1") /\ NoLog
  \/ PQ_Persist("w1") /\ NoLog
  \/ PQ_Interrupt("w1") /\ LogInterrupt("w1")
  \/ Over("w1") /\ PQ_Start("w2") /\ NoLog
  \/ PQ_Mark("w2") /\ NoLog
  \/ PQ_TryPlain("w2") /\ NoLog
  \/ PQ_Persist("w2") /\ NoLog
  \/ Over("w1") /\ UC_FetchDistinct("sched") /\ NoLog
  \/ UC_JsonDistinct("sched") /\ NoLog
  \/ UC_PutOrders("sched") /\ NoLog
  \/ UC_ReadQueue("sched") /\ NoLog
  \/ UC_PutQueue("sched") /\ NoLog

SpecCrash == InitRetry /\ [][NextCrash]_vars

\* processQueue, the scheduled refresh and GET /api/orders one after the
\* other, never overlapping, on a reliable store.  An attempt fails by a
\* rejected fetch or succeeds.
AllQuiet == Finished("w1") /\ Finished("sched") /\ pc["api"] = "idle"

NextEnqueue ==
  \/ AllQuiet /\ PQ_Start("w1") /\ NoLog
  \/ PQ_Mark("w1") /\ NoLog
  \/ PQ_TryPlain("w1") /\ NoLog
  \/ PQ_Persist("w1") /\ NoLog
  \/ AllQuiet /\ UC_Fetch("sched") /\ NoLog
  \/ UC_Json("sched") /\ NoLog
  \/ UC_PutOrders("sched") /\ NoLog
  \/ UC_ReadQueue("sched") /\ NoLog
  \/ UC_PutQueue("sched") /\ NoLog
  \/ AllQuiet /\ API_ListOrders("api") /\ NoLog
  \/ UC_Fetch("api") /\ NoLog
  \/ UC_Json("api") /\ NoLog
  \/ UC_PutOrders("api") /\ NoLog
  \/ API_Respond("api") /\ NoLog

SpecEnqueue == Init /\ [][NextEnqueue]_vars

\* The invocations other than p that are running.
Running(p) == {o \in (Workers \cup {"sched"}) \ {p} : ~Finished(o)}

\* History of overlapping triggers: each call a processQueue invocation made
\* to the summarization backend, with the document, the position of the item
\* in the queue, whether a persisted item of that document was completed when
\* the call was made (late), and whether the persisted item at that position
\* was (done).  The call of line 446 is made when resp.text() of line 445
\* resolves with the text.
LogCall(w) ==
  LET i == itemsToProcess[w][cursor[w]]
      d == queueData[w][i].documentNumber
      late == \E k \in 1..Len(kvQueue) :
                kvQueue[k].documentNumber = d /\ kvQueue[k].status = "completed"
      done == i <= Len(kvQueue) /\ kvQueue[i].status = "completed"
  IN  attemptLog' = [attemptLog EXCEPT ![w] =
                       Append(@, [event |-> "call", doc |-> d, item |-> i,
                                  late |-> late, done |-> done])]

\* The attempts in which the backend is called and answers: the text fetch
\* answers 200 with a body that reads, and the backend throws or returns text.
OkResponses == {resp \in TextResponses : resp.ok /\ resp.readable}
AnsweringReplies == {reply \in BackendReplies : reply.threw \/ reply.body # ""}

\* Scheduled triggers that may overlap, from the empty store: the refresh,
\* to which the listing returns RaceListed documents unless it fails, and
\* processQueue ("w1") run one after the other, again and again, with retry
\* delays elapsing between them, and at any moment one more processQueue
\* invocation ("w2") starts and interleaves with "w1" at its awaits.  The text
\* fetch answers 200 with a body that reads and the backend throws or
\* returns text.
RaceListings ==
  {ListingOf(RaceListed),
   [rejected |-> TRUE, ok |-> FALSE, parsed |-> FALSE, results |-> <<>>]}

RaceWorker(w) ==
  \/ PQ_Mark(w) /\ LogPut(w)
  \/ (\E resp \in OkResponses : PQ_Fetch(w, resp)) /\ NoLog
  \/ (\E resp \in OkResponses : PQ_Text(w, resp)) /\ LogCall(w)
  \/ (\E reply \in AnsweringReplies : PQ_Summarize(w, reply)) /\ NoLog
  \/ PQ_PutSummary(w) /\ NoLog
  \/ PQ_Persist(w) /\ LogPut(w)

NextRace ==
  \/ Finished("sched") /\ PQ_Start("w1") /\ NoLog
  \/ RaceWorker("w1")
  \/ pc["w2"] = "idle" /\ Finished("sched") /\ PQ_Start("w2") /\ NoLog
  \/ RaceWorker("w2")
  \/ Running("sched") = {} /\ (\E resp \in RaceListings : UC_FetchGets("sched", resp)) /\ NoLog
  \/ (\E resp \in RaceListings : UC_JsonGets("sched", resp)) /\ NoLog
  \/ UC_PutOrders("sched") /\ NoLog
  \/ UC_ReadQueue("sched") /\ NoLog
  \/ UC_PutQueue("sched") /\ NoLog
  \/ Running("api") = {} /\ TickDelay(MAX_RETRIES - 1) /\ NoLog

SpecRace == Init /\ [][NextRace]_vars

\* ---------------------------------------------------------------- claims
\* The item a worker selected j-th, as an index into the queue it read.
Sel(w, j) == itemsToProcess[w][j]

\* The positions of the queue a worker read at which the persisted queue now
\* differs from what it read.
Changed(w) == {i \in 1..Len(readQueue[w]) : kvQueue[i] # readQueue[w][i]}

Exhausted(item) == item.status = "failed" /\ item.attempts >= MAX_RETRIES

\* C1 as claimed: whatever refreshes with overlapping listings and batches
\* have run and are running, the persisted summary queue never holds two items
\* with the same documentNumber.
C1_NoDuplicateDocuments ==
  \A i, j \in 1..Len(kvQueue) :
    i # j => kvQueue[i].documentNumber # kvQueue[j].documentNumber

\* C2: one processQueue invocation processes at most MAX_CONCURRENT_REQUESTS
\* items; once it has returned, exactly min(k, MAX_CONCURRENT_REQUESTS) of the
\* k items eligible when it selected have been processed (one attempt more,
\* no longer pending) and every other item is persisted exactly as it was read.
C2_BatchCap ==
  pc["w1"] # "idle" =>
    LET q0 == readQueue["w1"]
        k == Len(EligibleItems(q0, selectedAt["w1"]))
    IN  /\ Len(kvQueue) = Len(q0)
        /\ Cardinality(Changed("w1")) <= MAX_CONCURRENT_REQUESTS
        /\ pc["w1"] = "returned" =>
             /\ Cardinality(Changed("w1")) = Min(k, MAX_CONCURRENT_REQUESTS)
             /\ \A i \in Changed("w1") :
                  /\ IsEligible(q0[i], selectedAt["w1"])
                  /\ kvQueue[i].status \in {"completed", "failed"}
                  /\ kvQueue[i].attempts = q0[i].attempts + 1

\* C2 witness: 7 pending items, the batch has returned, 5 have left pending and
\* the last 2 are still pending.
C2_Witness ==
  /\ pc["w1"] = "returned"
  /\ Len(kvQueue) = 7
  /\ \A i \in 1..5 : kvQueue[i].status # "pending"
  /\ \A i \in 6..7 : kvQueue[i] = readQueue["w1"][i] /\ kvQueue[i].status = "pending"

\* C3: a persisted item that is failed with attempts >= MAX_RETRIES is never
\* changed again, and no invocation that starts selects it, however far the
\* clock has advanced.
C3_ExhaustedStaysFailed ==
  [][\A i \in 1..Len(kvQueue) :
       Exhausted(kvQueue[i]) =>
         /\ Len(kvQueue') >= i
         /\ kvQueue'[i] = kvQueue[i]
         /\ (Finished("w1") /\ pc'["w1"] = "mark") =>
              i \notin Range(itemsToProcess'["w1"])]_vars

\* C3 witness: an invocation that selected a full retry delay after the third
\* failed attempt has returned and left the item as it was.
C3_Witness ==
  \E i \in 1..Len(kvQueue) :
    /\ Exhausted(kvQueue[i])
    /\ pc["w1"] = "returned"
    /\ readQueue["w1"] = kvQueue
    /\ selectedAt["w1"] - kvQueue[i].lastAttempt >= RETRY_DELAY_MS

\* C4: an item read as failed with attempts < MAX_RETRIES whose lastAttempt is
\* less than RETRY_DELAY_MS before the selection is not selected, and the
\* invocation leaves it unchanged, locally and in the store, whatever its
\* attempts count.
C4_RetryDelayGate ==
  pc["w1"] # "idle" =>
    \A i \in 1..Len(readQueue["w1"]) :
      LET item == readQueue["w1"][i]
      IN  (/\ item.status = "failed"
           /\ item.attempts < MAX_RETRIES
           /\ item.lastAttempt # NoAttempt
           /\ selectedAt["w1"] - item.lastAttempt < RETRY_DELAY_MS) =>
            /\ i \notin Range(itemsToProcess["w1"])
            /\ queueData["w1"][i] = item
            /\ kvQueue[i] = item

\* C4 witness: an invocation selected RETRY_DELAY_MS - 1 after the second
\* failed attempt of an item and has returned.
C4_Witness ==
  /\ pc["w1"] = "returned"
  /\ \E i \in 1..Len(readQueue["w1"]) :
       /\ readQueue["w1"][i].status = "failed"
       /\ readQueue["w1"][i].attempts = 2
       /\ selectedAt["w1"] = readQueue["w1"][i].lastAttempt + RETRY_DELAY_MS - 1

\* What the log says of one attempt.
FetchedAndSummarized(e) == e.fetched = "ok" /\ e.backend = "text"
FetchOrBackendThrew(e) ==
  e.fetched = "rejected" \/ e.body = "rejected" \/ e.backend = "threw"

\* C5: once an invocation has returned, every item it selected whose text
\* fetch and summary generation both succeeded is persisted as completed with
\* one attempt more than was read, and the SummaryRecord of its document holds
\* the generated text.
C5_SuccessCompletes ==
  pc["w1"] = "returned" =>
    \A j \in 1..Len(attemptLog["w1"]) :
      FetchedAndSummarized(attemptLog["w1"][j]) =>
        LET i == Sel("w1", j)
        IN  /\ kvQueue[i].documentNumber = readQueue["w1"][i].documentNumber
            /\ kvQueue[i].status = "completed"
            /\ kvQueue[i].attempts = readQueue["w1"][i].attempts + 1
            /\ kvSummary[kvQueue[i].documentNumber] = "summary"

\* C5 witness: a returned invocation whose retry of a once-failed item
\* succeeded.
C5_Witness ==
  /\ pc["w1"] = "returned"
  /\ \E j \in 1..Len(attemptLog["w1"]) :
       /\ FetchedAndSummarized(attemptLog["w1"][j])
       /\ readQueue["w1"][Sel("w1", j)].attempts = 1

\* C6: once an invocation has returned, every item it selected whose text
\* fetch or summary generation threw is persisted as failed with one attempt
\* more than was read and lastAttempt at the time the attempt was marked, and
\* its document has no SummaryRecord.
C6_FailureMarksFailed ==
  pc["w1"] = "returned" =>
    \A j \in 1..Len(attemptLog["w1"]) :
      FetchOrBackendThrew(attemptLog["w1"][j]) =>
        LET i == Sel("w1", j)
        IN  /\ kvQueue[i].documentNumber = readQueue["w1"][i].documentNumber
            /\ kvQueue[i].status = "failed"
            /\ kvQueue[i].attempts = readQueue["w1"][i].attempts + 1
            /\ kvQueue[i].lastAttempt = attemptLog["w1"][j].at
            /\ kvQueue[i].lastAttempt >= selectedAt["w1"]
            /\ kvQueue[i].lastAttempt <= now
            /\ j = 1 => kvQueue[i].lastAttempt = selectedAt["w1"]
            /\ kvSummary[kvQueue[i].documentNumber] = Null

\* C6 witness: a returned invocation in which the backend threw for an item
\* marked after the clock had advanced: a later item of the batch, stamped
\* in the turn in which the put of the item before it resolved.
C6_Witness ==
  /\ pc["w1"] = "returned"
  /\ \E j \in 1..Len(attemptLog["w1"]) :
       /\ attemptLog["w1"][j].backend = "threw"
       /\ attemptLog["w1"][j].at > selectedAt["w1"]

\* C7: no fetch or generation error leaves processQueue, and none ends the
\* batch: an invocation that has returned has attempted every item it
\* selected and persisted each as completed or failed.
C7_ErrorsStayInsideItem ==
  /\ pc["w1"] # "threw"
  /\ pc["w1"] = "returned" =>
       /\ Len(attemptLog["w1"]) = Len(itemsToProcess["w1"])
       /\ \A j \in 1..Len(itemsToProcess["w1"]) :
            /\ attemptLog["w1"][j].fetched # "pending"
            /\ kvQueue[Sel("w1", j)].status \in {"completed", "failed"}

\* C7 witness: the first item of a returned batch failed on a thrown error and
\* the item after it was still processed, to completed.
C7_Witness ==
  /\ pc["w1"] = "returned"
  /\ Len(attemptLog["w1"]) >= 2
  /\ FetchOrBackendThrew(attemptLog["w1"][1])
  /\ attemptLog["w1"][2].fetched # "pending"
  /\ kvQueue[Sel("w1", 2)].status = "completed"

\* C8 as claimed: an item whose text fetch answered with a non-success HTTP
\* status ends failed, with no SummaryRecord.
C8_HttpErrorFails ==
  pc["w1"] = "returned" =>
    \A j \in 1..Len(attemptLog["w1"]) :
      attemptLog["w1"][j].fetched = "http-error" =>
        /\ kvQueue[Sel("w1", j)].status = "failed"
        /\ kvSummary[kvQueue[Sel("w1", j)].documentNumber] = Null

\* C9 as claimed: an item for which the backend answered with an empty
\* response ends failed, with no SummaryRecord.
C9_UnusableResponseFails ==
  pc["w1"] = "returned" =>
    \A j \in 1..Len(attemptLog["w1"]) :
      attemptLog["w1"][j].backend = "empty" =>
        /\ kvQueue[Sel("w1", j)].status = "failed"
        /\ kvSummary[kvQueue[Sel("w1", j)].documentNumber] = Null

\* C10: the snapshot is absent or one complete listing with one timestamp.
\* Every CachedData a refresh holds is the whole result list of the one
\* response it fetched, stamped with the time it was built; the stored
\* snapshot changes only by a refresh putting the CachedData it holds; and a
\* reader is answered the orders of the snapshot stored when it read.
C10_SnapshotIsOneFetch ==
  /\ [](kvOrders = <<>> \/
        /\ Len(kvOrders) = 1
        /\ kvOrders[1].lastUpdated \in Times(Periods)
        /\ kvOrders[1].lastUpdated <= now
        /\ \E l \in Listings : kvOrders[1].orders = l)
  /\ [][/\ \A u \in Updaters :
             cacheData'[u] # cacheData[u] /\ cacheData'[u] # <<>> =>
               \E resp \in ListingResponses :
                 /\ resp.ok /\ resp.parsed
                 /\ cacheData'[u] = <<[lastUpdated |-> now, orders |-> resp.results]>>
        /\ kvOrders' # kvOrders =>
             \E u \in Updaters : pc[u] = "putOrders" /\ kvOrders' = cacheData[u]
        /\ response'.status = 200 /\ response' # response =>
             kvOrders # <<>> /\ response'.orders = kvOrders[1].orders]_vars

\* C10 witness: a reader has been answered a snapshot, and a refresh holding a
\* different listing with a later timestamp is about to replace the stored one.
C10_Witness ==
  /\ response.status = 200
  /\ kvOrders # <<>>
  /\ Len(kvOrders[1].orders) = 2
  /\ pc["sched"] = "putOrders"
  /\ Len(cacheData["sched"][1].orders) = 1
  /\ cacheData["sched"][1].lastUpdated > kvOrders[1].lastUpdated

\* C11 as claimed: a refresh that ended with an error propagated to its caller
\* has written no snapshot.
C11_FailedRefreshWritesNothing ==
  pc["sched"] = "threw" =>
    \A k \in 1..Len(attemptLog["sched"]) :
      ~(attemptLog["sched"][k].op = "put orders" /\ attemptLog["sched"][k].ok)

\* C12 as claimed: a GET /api/orders that found no snapshot is answered 202,
\* never an error, also when the refresh it started failed.  (A request that
\* found no snapshot is the only one answered by API_Respond; 200 answers a
\* request that found one.)
C12_PendingNeverError ==
  response # NoResponse /\ response.status # 200 => response.status = 202

\* C13 as claimed: the handler answers "not yet available" without waiting
\* for the refresh it started, so while that refresh is still fetching or
\* writing the snapshot the caller has already been answered 202.
C13_AnsweredBeforeRefreshEnds ==
  pc["api"] \in {"refresh", "putOrders"} => response.status = 202

\* The edges of the QueueItem lifecycle.
LifecycleEdges ==
  {<<"pending", "processing">>, <<"failed", "processing">>,
   <<"processing", "completed">>, <<"processing", "failed">>}

\* C14 as claimed: over every sequence and interleaving of refreshes and
\* processQueue invocations, every step keeps each persisted item in place
\* and changes its status only along a lifecycle edge; a completed item is
\* never changed again; every item that appears is pending.  (So nothing
\* returns to pending: no edge ends there.)
C14_LifecycleEdges ==
  [][/\ Len(kvQueue') >= Len(kvQueue)
     /\ \A i \in 1..Len(kvQueue) :
          /\ kvQueue'[i].documentNumber = kvQueue[i].documentNumber
          /\ \/ kvQueue'[i].status = kvQueue[i].status
             \/ <<kvQueue[i].status, kvQueue'[i].status>> \in LifecycleEdges
          /\ kvQueue[i].status = "completed" => kvQueue'[i] = kvQueue[i]
     /\ \A i \in (Len(kvQueue) + 1)..Len(kvQueue') :
          kvQueue'[i].status = "pending"]_vars

\* The step is a put of the whole queue, by processQueue or by the refresh,
\* over a change that the other persisted after the putter read or last
\* wrote the queue.
OverwritingPut ==
  \E p \in {"w1", "sched"} :
    /\ pc[p] \in {"mark", "persist", "putQueue"}
    /\ pc'[p] # pc[p]
    /\ kvQueue # Seen(p)

\* Some invocation, processQueue or refresh, has made such a put.
Overwritten ==
  \E p \in Workers \cup {"sched"} : StalePut \in Range(attemptLog[p])

\* C14 amended: every step other than a put over a change of an overlapping
\* invocation keeps each persisted item in place and changes its status only
\* along a lifecycle edge, leaves a completed item as it is, and makes items
\* appear as pending only; so it is over operations that do not overlap.
C14_LifecycleEdgesNoLostUpdate ==
  [][\/ OverwritingPut
     \/ /\ Len(kvQueue') >= Len(kvQueue)
        /\ \A i \in 1..Len(kvQueue) :
             /\ kvQueue'[i].documentNumber = kvQueue[i].documentNumber
             /\ \/ kvQueue'[i].status = kvQueue[i].status
                \/ <<kvQueue[i].status, kvQueue'[i].status>> \in LifecycleEdges
             /\ kvQueue[i].status = "completed" => kvQueue'[i] = kvQueue[i]
        /\ \A i \in (Len(kvQueue) + 1)..Len(kvQueue') :
             kvQueue'[i].status = "pending"]_vars

\* C14 witness: with no update lost, the first item failed, a refresh queued
\* a second document, and after the retry delay one invocation completed the
\* first on its retry and failed the second on its first attempt.
C14_Witness ==
  /\ ~Overwritten
  /\ Len(kvQueue) = 2
  /\ kvQueue[1].status = "completed"
  /\ kvQueue[1].attempts = 2
  /\ kvQueue[2].status = "failed"
  /\ kvQueue[2].attempts = 1
  /\ kvQueue[1].lastAttempt > RETRY_DELAY_MS
  /\ pc["w1"] = "returned"

\* C20 as claimed: in every step, over every interleaving of refresh and
\* processQueue, each document of the persisted queue stays in it at the same
\* position.
C20_AppendOnlyInterleaved ==
  [][\A i \in 1..Len(kvQueue) :
       /\ Len(kvQueue') >= i
       /\ kvQueue'[i].documentNumber = kvQueue[i].documentNumber]_vars

\* A put of the whole queue by a processQueue invocation that read the queue
\* before a refresh appended to it: the two overlapped.
StaleQueuePut(w) ==
  /\ pc[w] \in {"mark", "persist"}
  /\ pc'[w] # pc[w]
  /\ Len(queueData[w]) < Len(kvQueue)

\* C20 amended: each document of the persisted queue stays in it at the same
\* position, and documents that appear are appended after them, in every step
\* except the put of a processQueue invocation that overlapped a refresh's
\* append; so for invocations that do not overlap the queue only grows by
\* append.
C20_AppendOnly ==
  [][\/ StaleQueuePut("w1")
     \/ /\ Len(kvQueue') >= Len(kvQueue)
        /\ SubSeq([i \in 1..Len(kvQueue') |-> kvQueue'[i].documentNumber],
                  1, Len(kvQueue))
             = [i \in 1..Len(kvQueue) |-> kvQueue[i].documentNumber]]_vars

\* C20 witness: the queue grew in two refreshes, with an invocation that
\* processed the first document between them.
C20_Witness ==
  /\ Len(kvQueue) = 2
  /\ kvQueue[1].status \in {"completed", "failed"}
  /\ kvQueue[2].status = "pending"
  /\ kvQueue[1].documentNumber > kvQueue[2].documentNumber
  /\ pc["sched"] = "returned"

\* A QueueItem that will not be attempted again.
Terminal(item) ==
  \/ item.status = "completed"
  \/ item.status = "failed" /\ item.attempts = MAX_RETRIES

EligibleAsClaimed(item, t) ==
  \/ item.status = "pending"
  \/ /\ item.status = "failed"
     /\ item.attempts < MAX_RETRIES
     /\ (item.lastAttempt = NoAttempt \/ t - item.lastAttempt >= RETRY_DELAY_MS)

EligiblePositions(q, t) == {i \in 1..Len(q) : EligibleAsClaimed(q[i], t)}

\* C16: the selection of an invocation is the first min(MAX_CONCURRENT_REQUESTS,
\* k) eligible positions of the queue it read, in ascending order; the selected
\* items are processed one after another in that order: those before the
\* current one are persisted completed or failed, those after it are persisted
\* as they were read, and at most one is persisted as processing.
C16_SelectionOrder ==
  pc["w1"] # "idle" =>
    LET q0 == readQueue["w1"]
        sel == itemsToProcess["w1"]
        E == EligiblePositions(q0, selectedAt["w1"])
        done == IF pc["w1"] = "returned" THEN Len(sel) ELSE cursor["w1"] - 1
        next == IF pc["w1"] = "returned" THEN Len(sel) + 1 ELSE cursor["w1"] + 1
    IN  /\ Len(sel) = Min(MAX_CONCURRENT_REQUESTS, Cardinality(E))
        /\ \A j \in 1..Len(sel) : sel[j] \in E
        /\ \A j \in 1..(Len(sel) - 1) : sel[j] < sel[j + 1]
        /\ \A e \in E : \A j \in 1..Len(sel) : e < sel[j] => e \in Range(sel)
        /\ \A j \in 1..done : kvQueue[sel[j]].status \in {"completed", "failed"}
        /\ \A j \in next..Len(sel) : kvQueue[sel[j]] = q0[sel[j]]
        /\ Cardinality({j \in 1..Len(sel) : kvQueue[sel[j]].status = "processing"}) <= 1

\* C16 witness: a returned invocation passed over a failed item whose delay
\* had not elapsed, processed five eligible items of which one lies behind it,
\* and left a sixth eligible item for the next invocation.
C16_Witness ==
  /\ pc["w1"] = "returned"
  /\ Len(itemsToProcess["w1"]) = MAX_CONCURRENT_REQUESTS
  /\ Cardinality(EligiblePositions(readQueue["w1"], selectedAt["w1"])) > MAX_CONCURRENT_REQUESTS
  /\ \E i \in 1..Len(readQueue["w1"]) : \E k \in Range(itemsToProcess["w1"]) :
       /\ i < k
       /\ readQueue["w1"][i].status = "failed"
       /\ i \notin EligiblePositions(readQueue["w1"], selectedAt["w1"])
       /\ kvQueue[i] = readQueue["w1"][i]
       /\ kvQueue[k].status \in {"completed", "failed"}
       /\ kvQueue[k].attempts = readQueue["w1"][k].attempts + 1

\* C17: for the invocation that may be interrupted, before any later
\* operation has run: when the raw-text fetch of an item is about to be
\* issued, the persisted queue already holds the item's mark (processing,
\* attempts incremented, lastAttempt set); at every point, interrupted or not,
\* every selected item before the current one is persisted completed or
\* failed, and at most one selected item is persisted as processing.
C17_CrashConsistency ==
  (pc["w1"] \in {"mark", "fetch", "text", "summarize", "putSummary", "persist",
                  "interrupted"}
     /\ pc["w2"] = "idle" /\ pc["sched"] = "idle") =>
    LET q0 == readQueue["w1"]
        sel == itemsToProcess["w1"]
        cur == sel[cursor["w1"]]
    IN  /\ pc["w1"] \in {"fetch", "text", "summarize", "putSummary"} =>
             /\ kvQueue[cur].status = "processing"
             /\ kvQueue[cur].attempts = q0[cur].attempts + 1
             /\ kvQueue[cur].lastAttempt = now
        /\ \A j \in 1..(cursor["w1"] - 1) :
             kvQueue[sel[j]].status \in {"completed", "failed"}
        /\ Cardinality({j \in 1..Len(sel) : kvQueue[sel[j]].status = "processing"}) <= 1
        /\ \A i \in 1..Len(kvQueue) :
             kvQueue[i].status = "processing" => i = cur

\* C17 witness: the invocation was interrupted during its second item, after
\* the first was persisted with its final status.
C17_Witness ==
  /\ pc["w1"] = "interrupted"
  /\ pc["w2"] = "idle"
  /\ pc["sched"] = "idle"
  /\ cursor["w1"] = 2
  /\ kvQueue[Sel("w1", 1)].status \in {"completed", "failed"}
  /\ kvQueue[Sel("w1", 2)].status = "processing"
  /\ queueData["w1"][Sel("w1", 2)].status = "completed"

\* The item an interrupted invocation had marked and left persisted as
\* processing: it was interrupted after its put of line 441 had landed.
Orphan(i) ==
  /\ pc["w1"] = "interrupted"
  /\ attemptLog["w1"][1].at # "mark"
  /\ i = itemsToProcess["w1"][cursor["w1"]]
  /\ i <= Len(kvQueue)
  /\ kvQueue[i].status = "processing"

\* C18: an item left persisted as processing by an interrupted invocation is
\* identical in the persisted queue after every step of the operations that
\* start later, and no later invocation has it in its selection.
C18_OrphanStaysProcessing ==
  [][\A i \in 1..Len(kvQueue) :
       Orphan(i) =>
         /\ Len(kvQueue') >= i
         /\ kvQueue'[i] = kvQueue[i]
         /\ i \notin Range(itemsToProcess'["w2"])]_vars

\* C18 witness: after the interruption a refresh has appended a document and
\* a later invocation has processed it and returned; the orphan is still
\* processing.
C18_Witness ==
  /\ \E i \in 1..Len(kvQueue) : Orphan(i)
  /\ Len(kvQueue) > Len(readQueue["w1"])
  /\ pc["w2"] = "returned"
  /\ Len(itemsToProcess["w2"]) > 0
  /\ kvQueue[Len(kvQueue)].status = "completed"

\* C19 as claimed: a rejected put of a SummaryRecord, like every other store
\* failure, leaves processQueue as an error and is not turned into a failed
\* item.
C19_EveryStoreFailureAborts ==
  \A j \in 1..Len(attemptLog["w1"]) :
    attemptLog["w1"][j].stored = "rejected" =>
      /\ pc["w1"] = "threw"
      /\ queueData["w1"][Sel("w1", j)].status # "failed"

\* C19 amended.  A rejected get or put of the queue ends processQueue with an
\* error at once: the item at hand is persisted as it was read or as
\* processing, never as failed or completed by that attempt, and the items
\* after it stay as read.  A rejected store operation of a refresh ends the
\* refresh with an error and is the last operation it issues.  A rejected put
\* of a SummaryRecord is caught like a fetch or generation error: the item is
\* failed, no SummaryRecord is written, and the batch goes on to return.
C19_StoreFailures ==
  LET log == attemptLog["w1"]
      sel == itemsToProcess["w1"]
      q0 == readQueue["w1"]
      ops == attemptLog["sched"]
  IN  /\ \A j \in 1..Len(log) :
           log[j].queuePut = "rejected" =>
             /\ pc["w1"] = "threw"
             /\ j = Len(log)
             /\ kvQueue[sel[j]].status \in {q0[sel[j]].status, "processing"}
             /\ \A k \in (j + 1)..Len(sel) : kvQueue[sel[k]] = q0[sel[k]]
      /\ (pc["w1"] = "threw" /\ Len(log) = 0) =>
           Len(kvQueue) >= Len(q0) /\ SubSeq(kvQueue, 1, Len(q0)) = q0
      /\ \A k \in 1..Len(ops) :
           ~ops[k].ok => pc["sched"] = "threw" /\ k = Len(ops)
      /\ \A j \in 1..Len(log) :
           log[j].stored = "rejected" =>
             /\ queueData["w1"][sel[j]].status = "failed"
             /\ kvSummary[q0[sel[j]].documentNumber] = Null
             /\ (j < Len(log) \/ pc["w1"] = "returned") =>
                  kvQueue[sel[j]].status = "failed"
      /\ pc["w1"] = "returned" => Len(log) = Len(sel)

\* C19 witness: an invocation returned after the put of a SummaryRecord was
\* rejected for its item, now failed; the refresh after it wrote the snapshot
\* and then ended with an error on the rejected put of the queue.
C19_Witness ==
  /\ pc["w1"] = "returned"
  /\ Len(attemptLog["w1"]) >= 1
  /\ attemptLog["w1"][1].stored = "rejected"
  /\ kvQueue[Sel("w1", 1)].status = "failed"
  /\ pc["sched"] = "threw"
  /\ Len(attemptLog["sched"]) = 3
  /\ ~attemptLog["sched"][3].ok

\* new is old followed by exactly one pending, never attempted item for each
\* fetched order whose document is not in old, in the order fetched.
AppendedInFetchOrder(old, fetched, new) ==
  LET oldDocs == {old[i].documentNumber : i \in 1..Len(old)}
      absent == {m \in 1..Len(fetched) : fetched[m].document_number \notin oldDocs}
  IN  /\ Len(new) = Len(old) + Cardinality(absent)
      /\ SubSeq(new, 1, Len(old)) = old
      /\ \A m \in absent :
           LET k == Len(old) + Cardinality({n \in absent : n <= m})
           IN  new[k] = [documentNumber |-> fetched[m].document_number,
                         rawTextUrl |-> fetched[m].raw_text_url,
                         status |-> "pending",
                         attempts |-> 0,
                         lastAttempt |-> NoAttempt]

\* C21: the put that ends a refresh with the summary flag writes the queue as
\* it was, followed by one pending item per fetched order whose document was
\* absent, in fetch order; every other step of that refresh, among them its
\* return without a put when no document is new, and every step of a refresh
\* without the flag leave the persisted queue unchanged.
C21_EnqueueFrame ==
  [][/\ (pc["sched"] = "putQueue" /\ pc'["sched"] # "putQueue") =>
          /\ AppendedInFetchOrder(kvQueue, kvOrders[1].orders, kvQueue')
          /\ Len(kvQueue') > Len(kvQueue)
     /\ (pc["sched"] \in {"putOrders", "readQueue"} /\ pc'["sched"] # pc["sched"]) =>
          kvQueue' = kvQueue
     /\ (pc["sched"] = "readQueue" /\ pc'["sched"] = "returned") =>
          AppendedInFetchOrder(kvQueue, cacheData["sched"][1].orders, kvQueue)
     /\ pc'["api"] # pc["api"] => kvQueue' = kvQueue]_vars

\* C21 witness: a refresh without the flag ran first on the empty store and
\* was answered 202; later a refresh with the flag, listing two documents,
\* has appended the first of them behind the other, already processed.
C21_Witness ==
  /\ response.status = 202
  /\ pc["sched"] = "returned"
  /\ Len(kvQueue) = 2
  /\ kvQueue[1].status \in {"completed", "failed"}
  /\ kvQueue[2].status = "pending"
  /\ Len(kvOrders[1].orders) = 2
  /\ kvOrders[1].orders[1].document_number = kvQueue[2].documentNumber

\* The fields of a QueueItem agree: never attempted and pending, or attempted
\* between once and MAX_RETRIES times, stamped, and in another status.
WellFormedItem(item) ==
  /\ item.attempts \in 0..MAX_RETRIES
  /\ item.status = "pending" <=> (item.attempts = 0 /\ item.lastAttempt = NoAttempt)
  /\ item.status \in {"processing", "completed", "failed"} =>
       (item.attempts >= 1 /\ item.lastAttempt # NoAttempt)

\* C22: every item of the persisted queue has 0 <= attempts <= MAX_RETRIES, is
\* pending exactly when attempts = 0 and lastAttempt is unset, and has
\* attempts >= 1 and lastAttempt set when processing, completed or failed.
C22_ItemsWellFormed == \A i \in 1..Len(kvQueue) : WellFormedItem(kvQueue[i])

\* C22 witness: the persisted queue holds an item that used up its attempts
\* and one marked for its last attempt, after two retry delays.
C22_Witness ==
  /\ \E i \in 1..Len(kvQueue) :
       kvQueue[i].status = "failed" /\ kvQueue[i].attempts = MAX_RETRIES
  /\ \E i \in 1..Len(kvQueue) :
       /\ kvQueue[i].status = "processing"
       /\ kvQueue[i].attempts = MAX_RETRIES
       /\ kvQueue[i].lastAttempt > 2 * RETRY_DELAY_MS

\* C23: every item of the persisted queue that is completed has a summary
\* stored under its document number.
C23_CompletedHasSummary ==
  \A i \in 1..Len(kvQueue) :
    kvQueue[i].status = "completed" => kvSummary[kvQueue[i].documentNumber] # Null

\* C23 witness: a batch completed its first item and failed its second, for
\* which nothing is stored, while a refresh is under way.
C23_Witness ==
  /\ Len(kvQueue) = 2
  /\ kvQueue[1].status = "completed"
  /\ kvSummary[kvQueue[1].documentNumber] = "summary"
  /\ kvQueue[2].status = "failed"
  /\ kvSummary[kvQueue[2].documentNumber] = Null
  /\ pc["w1"] = "returned"
  /\ pc["sched"] = "readQueue"

\* A refresh with the summary flag and a processQueue invocation have both
\* run to their end.
TriggerDone == pc["sched"] = "returned" /\ pc["w1"] = "returned"

\* Every document of the snapshot the refresh stored is in the persisted
\* queue: what the refresh appended is there.
RefreshKept ==
  \A m \in 1..Len(kvOrders[1].orders) :
    \E i \in 1..Len(kvQueue) :
      kvQueue[i].documentNumber = kvOrders[1].orders[m].document_number

\* The persisted queue shows every item the invocation attempted as the
\* invocation left it.
BatchKept ==
  \A j \in 1..Len(itemsToProcess["w1"]) :
    LET i == itemsToProcess["w1"][j]
    IN  Len(kvQueue) >= i /\ kvQueue[i] = queueData["w1"][i]

\* C24 as claimed: once the refresh and processQueue of a trigger have both
\* finished, the persisted queue holds every item the refresh appended and
\* every status and attempts change processQueue made.
C24_NoLostUpdate == TriggerDone => (RefreshKept /\ BatchKept)

\* C24 amended: once both have finished the persisted queue is the one put
\* last: it holds every item the refresh appended, or it is the queue as
\* processQueue last wrote it.
C24_LastWriterWins == TriggerDone => (RefreshKept \/ kvQueue = queueData["w1"])

\* C24 witness: both have finished, processQueue put last: its completed item
\* is persisted and the document the refresh appended meanwhile is gone.
C24_Witness ==
  /\ TriggerDone
  /\ Len(kvOrders[1].orders) = 2
  /\ Len(kvQueue) = 1
  /\ kvQueue[1].status = "completed"
  /\ kvQueue = queueData["w1"]
  /\ ~RefreshKept

\* The calls made to the backend for document d, over all invocations.
BackendCalls(d) ==
  UNION {{<<w, k>> : k \in {n \in 1..Len(attemptLog[w]) :
                              /\ attemptLog[w][n].event = "call"
                              /\ attemptLog[w][n].doc = d}} : w \in Workers}

\* At most MAX_RETRIES calls for each document, none of them made when a
\* persisted item of the document was completed.
BoundedCalls ==
  \A d \in 1..RaceListed :
    /\ Cardinality(BackendCalls(d)) <= MAX_RETRIES
    /\ \A c \in BackendCalls(d) : ~attemptLog[c[1]][c[2]].late

\* The calls made to the backend for the item at position i of the queue.
ItemCalls(i) ==
  UNION {{<<w, k>> : k \in {n \in 1..Len(attemptLog[w]) :
                              /\ attemptLog[w][n].event = "call"
                              /\ attemptLog[w][n].item = i}} : w \in Workers}

\* At most MAX_RETRIES calls for each QueueItem, none of them made when the
\* persisted item was completed.
BoundedItemCalls ==
  \A i \in 1..Len(kvQueue) :
    /\ Cardinality(ItemCalls(i)) <= MAX_RETRIES
    /\ \A c \in ItemCalls(i) : ~attemptLog[c[1]][c[2]].done

\* Some processQueue invocation has put the queue over a change that another
\* had persisted since the invocation last read or wrote it: an update is lost.
LostUpdate == \E w \in Workers : StalePut \in Range(attemptLog[w])

\* C25 as claimed: over every execution, overlapping triggers included, the
\* backend is called at most MAX_RETRIES times for each document and never
\* for a document whose item is already completed.
C25_BoundedCallsRacing == BoundedCalls

\* C25 amended: over every execution in which no invocation has overwritten
\* a change of another, and so over every execution in which invocations do
\* not overlap, the backend is called at most MAX_RETRIES times for each
\* QueueItem and never for an item that is already completed.
C25_BoundedCallsNoLostUpdate == LostUpdate \/ BoundedItemCalls

\* C25 witness: without any lost update, an item has failed MAX_RETRIES
\* times with the backend called each time.
C25_Witness ==
  /\ ~LostUpdate
  /\ \E i \in 1..Len(kvQueue) :
       /\ kvQueue[i].status = "failed"
       /\ kvQueue[i].attempts = MAX_RETRIES
       /\ Cardinality(ItemCalls(i)) = MAX_RETRIES

====
